---- MODULE Spec2Model ----
(***************************************************************************)
(* Shrinkable (src/shrinkable.orig.js): a DOM utility that rewrites the    *)
(* watched CSS lengths of a container's descendants into em units and then *)
(* scales the container's font size with its width.                        *)
(*                                                                         *)
(* Strings are sequences of one-character strings, so that parseInt,       *)
(* String.match, String.indexOf, toFixed and string concatenation are      *)
(* computed character by character.  JavaScript numbers are exact          *)
(* rationals here (scaled integers); the only place where the binary       *)
(* floating point of the engine decides a result, the direction in which   *)
(* toFixed rounds a decimal tie that has no exact double, is a             *)
(* nondeterministic choice.                                                *)
(***************************************************************************)
EXTENDS Integers, Sequences, FiniteSets

(***************************************************************************)
(* Bounds of the model.                                                    *)
(***************************************************************************)
MaxWidth == 5
MaxNodes == 4
MaxSheets == 2
MaxRules == 2
MaxInt == 5

(***************************************************************************)
(* Characters and numbers.                                                 *)
(***************************************************************************)
DigitChars == <<"0", "1", "2", "3", "4", "5", "6", "7", "8", "9">>

IsDigit(c) == \E i \in 1..10 : DigitChars[i] = c

DigitVal(c) == (CHOOSE i \in 1..10 : DigitChars[i] = c) - 1

IsAlpha(c) ==
    c \in {"a", "b", "c", "d", "e", "f", "g", "h", "i", "j", "k", "l", "m",
           "n", "o", "p", "q", "r", "s", "t", "u", "v", "w", "x", "y", "z"}

IsSpace(c) == c = " "

Abs(x) == IF x < 0 THEN -x ELSE x

\* The longest prefix of s whose characters all satisfy the class:
\* "d" digits, "a" letters.
RECURSIVE RunOf(_, _)
RunOf(s, class) ==
    IF s = <<>> THEN <<>>
    ELSE IF (class = "d" /\ IsDigit(Head(s))) \/ (class = "a" /\ IsAlpha(Head(s)))
         THEN <<Head(s)>> \o RunOf(Tail(s), class)
         ELSE <<>>

\* String.prototype.match with /\d+/ ("d") or /[a-z]+/i ("a"), element [0]:
\* the leftmost longest run of the class; <<>> when there is none.
RECURSIVE FirstMatch(_, _)
FirstMatch(s, class) ==
    IF s = <<>> THEN <<>>
    ELSE IF RunOf(s, class) # <<>> THEN RunOf(s, class)
         ELSE FirstMatch(Tail(s), class)

\* The value of a string of decimal digits (what the * operator of the
\* engine makes of the captured digits).
RECURSIVE DigitsToNat(_)
DigitsToNat(ds) ==
    IF ds = <<>> THEN 0
    ELSE 10 * DigitsToNat(SubSeq(ds, 1, Len(ds) - 1)) + DigitVal(ds[Len(ds)])

\* Number to decimal digits.
RECURSIVE NatToChars(_)
NatToChars(n) ==
    IF n < 10 THEN <<DigitChars[n + 1]>>
    ELSE NatToChars(n \div 10) \o <<DigitChars[(n % 10) + 1]>>

\* Exactly k fraction digits of f, zero padded on the left.
RECURSIVE FracChars(_, _)
FracChars(f, k) ==
    IF k = 0 THEN <<>>
    ELSE FracChars(f \div 10, k - 1) \o <<DigitChars[(f % 10) + 1]>>

RECURSIVE TrimZeros(_)
TrimZeros(s) ==
    IF s # <<>> /\ s[Len(s)] = "0" THEN TrimZeros(SubSeq(s, 1, Len(s) - 1))
    ELSE s

RECURSIVE Pow10(_)
Pow10(k) == IF k = 0 THEN 1 ELSE 10 * Pow10(k - 1)

\* Number.prototype.toString of the non-negative number v / 10^k: the
\* shortest decimal, no trailing zeros, no point for an integer.
NumberToString(v, k) ==
    LET ip == v \div Pow10(k)
        fr == TrimZeros(FracChars(v % Pow10(k), k))
    IN  IF fr = <<>> THEN NatToChars(ip) ELSE NatToChars(ip) \o <<".">> \o fr

\* Number.prototype.toFixed(2) of the number num / den (den > 0), as the set
\* of the hundredths the engine may print: the nearest hundredth, the larger
\* in magnitude on a tie the double holds exactly ((2k+1)/200 with 25 | 2k+1),
\* either neighbour on a tie that has no exact double.
ToFixed2(num, den) ==
    LET a  == Abs(num)
        lo == (100 * a) \div den
        r2 == 2 * ((100 * a) % den)
        sg == IF num < 0 THEN -1 ELSE 1
    IN  IF r2 < den THEN {sg * lo}
        ELSE IF r2 > den THEN {sg * (lo + 1)}
        ELSE IF (2 * lo + 1) % 25 = 0 THEN {sg * (lo + 1)}
        ELSE {sg * lo, sg * (lo + 1)}

\* The text toFixed(2) prints for h hundredths; neg is the sign of the number
\* rounded (toFixed keeps the sign of a negative number that rounds to 0).
Fixed2String(h, neg) ==
    (IF neg THEN <<"-">> ELSE <<>>)
        \o NatToChars(Abs(h) \div 100) \o <<".">> \o FracChars(Abs(h) % 100, 2)

(***************************************************************************)
(* Reading a CSS length.                                                   *)
(***************************************************************************)
\* The digits of s that follow its first "." (none when s has no point).
RECURSIVE AfterPoint(_)
AfterPoint(s) ==
    IF s = <<>> THEN <<>>
    ELSE IF Head(s) = "." THEN RunOf(Tail(s), "d")
    ELSE IF IsDigit(Head(s)) THEN AfterPoint(Tail(s))
    ELSE <<>>

\* The number a length such as "10.6672px" starts with, in 1/10000.
LengthValue(s) ==
    LET ip == RunOf(s, "d")
        fr == AfterPoint(s)
    IN  DigitsToNat(ip) * 10000
          + (IF fr = <<>> THEN 0 ELSE DigitsToNat(fr) * Pow10(4 - Len(fr)))

\* The unit a length ends with.
RECURSIVE LengthUnit(_)
LengthUnit(s) ==
    IF s = <<>> THEN <<>>
    ELSE IF IsAlpha(Head(s)) THEN s
    ELSE LengthUnit(Tail(s))

(***************************************************************************)
(* State.                                                                  *)
(***************************************************************************)
VARIABLES
    fullWidth,              \* _fullWidth, constructor argument
    minScale,               \* _minScale, constructor argument (1/10000)
    computedRootFont,       \* getComputedStyle(_el)['font-size'] at construction
    encapsulatingFontSize,  \* _encapsulatingFontSize, a string of digits
    encapsulatingFontUnits, \* _encapsulatingFontUnits
    rootFontSize,           \* _el.style.fontSize
    clientWidth,            \* _el.clientWidth
    resizeListeners,        \* the window's listeners of 'resize'
    lastCall,               \* the most recent of Enable / Disable ("none" before)
    lastEvent,              \* what the latest step was, and the _shrink runs it made
    lastScale,              \* the scale the latest _shrink applied (1/10000), if any ran
    pc,                     \* "new": constructor called; "walk"; "done"; "threw"
    dom,                    \* the document: kind, parentNode and childNodes of every node
    style,                  \* element.style of the nodes of the container
    stack,                  \* the activations of _recurseElement, innermost last
    probeCount,             \* test elements created so far
    visitLog,               \* the nodes _recurseElement was called on, in order
    convertLog,             \* the calls of _convertStylesToEm, in order
    pseudoThrows,           \* whether el.matches throws at a :: selector in this browser
    cssOutcomes,            \* _getAppliedCSS alone: what el.matches does, per sheet and rule
    cssResult,              \* _getAppliedCSS alone: what the call left
    emStyleValue,           \* _getStyleValueInEm alone: the style value, in its parts
    emParent,               \* _getStyleValueInEm alone: parentEmSize
    emResult                \* _getStyleValueInEm alone: the argument string and the result

rtVars == <<fullWidth, minScale, computedRootFont, encapsulatingFontSize,
            encapsulatingFontUnits, rootFontSize, clientWidth, resizeListeners,
            lastCall, lastEvent, lastScale>>

walkVars == <<pc, dom, style, stack, probeCount, visitLog, convertLog,
             pseudoThrows>>

fnVars == <<cssOutcomes, cssResult, emStyleValue, emParent, emResult>>

vars == <<rtVars, walkVars, fnVars>>

NoScale == {}

(***************************************************************************)
(* Inputs.                                                                 *)
(***************************************************************************)
\* Computed font sizes of the root element; getComputedStyle reports px.
ComputedFonts ==
    { <<"8", "p", "x">>, <<"1", "6", "p", "x">>,
      <<"1", "6", ".", "5", "p", "x">>, <<"0", ".", "5", "p", "x">> }

FullWidths == {0, 3, 4}

MinScales == {0, 5000, 10000}

Widths == 0..MaxWidth

(***************************************************************************)
(* CSS property names and the style sheets of the document.                *)
(***************************************************************************)
Hyphen(a, b) == a \o <<"-">> \o b

WFont == <<"f", "o", "n", "t">>
WSize == <<"s", "i", "z", "e">>
WLine == <<"l", "i", "n", "e">>
WHeight == <<"h", "e", "i", "g", "h", "t">>
WPadding == <<"p", "a", "d", "d", "i", "n", "g">>
WMargin == <<"m", "a", "r", "g", "i", "n">>
WPosition == <<"p", "o", "s", "i", "t", "i", "o", "n">>
WAbsolute == <<"a", "b", "s", "o", "l", "u", "t", "e">>
Top == <<"t", "o", "p">>
Right == <<"r", "i", "g", "h", "t">>
Bottom == <<"b", "o", "t", "t", "o", "m">>
Left == <<"l", "e", "f", "t">>
FontSize == Hyphen(WFont, WSize)
LineHeight == Hyphen(WLine, WHeight)
PaddingTop == Hyphen(WPadding, Top)
Px == <<"p", "x">>
Em == <<"e", "m">>
Auto == <<"a", "u", "t", "o">>
Normal == <<"n", "o", "r", "m", "a", "l">>

\* The default of the watchStyles parameter (line 45).
DefaultWatchStyles ==
    << FontSize, LineHeight,
       PaddingTop, Hyphen(WPadding, Right), Hyphen(WPadding, Bottom), Hyphen(WPadding, Left),
       Hyphen(WMargin, Top), Hyphen(WMargin, Right), Hyphen(WMargin, Bottom), Hyphen(WMargin, Left),
       Top, Right, Bottom, Left >>

\* _watchStyles after _initialize (lines 285-288): an array has no property
\* named 'font-size', so the test always passes and 'font-size' is pushed
\* once more.
WatchStyles == Append(DefaultWatchStyles, FontSize)

\* The expando property line 77 writes (lineheight is no CSS property).
LineHeightExpando == WLine \o WHeight

\* The property names as the keys of element.style, in the order of
\* DefaultWatchStyles, and then the expando.
StyleKeyList ==
    << "font-size", "line-height",
       "padding-top", "padding-right", "padding-bottom", "padding-left",
       "margin-top", "margin-right", "margin-bottom", "margin-left",
       "top", "right", "bottom", "left", "lineheight" >>

StyleKeys == {StyleKeyList[i] : i \in 1..Len(StyleKeyList)}

\* The key of element.style a property name selects.
K(name) ==
    IF name = LineHeightExpando THEN "lineheight"
    ELSE StyleKeyList[CHOOSE i \in 1..Len(DefaultWatchStyles) : DefaultWatchStyles[i] = name]

\* One declaration, as CSSRule.cssText prints it.
Decl(name, value) == <<" ">> \o name \o <<":", " ">> \o value \o <<";">>

RuleText(selector, decls) == selector \o <<" ", "{">> \o decls \o <<" ", "}">>

\* document.styleSheets: two sheets.  A rule is its class selector (cls; ""
\* for the pseudo-element rule, whose selector makes el.matches throw in
\* the browsers of line 107), the properties it declares and its cssText.
StyleSheets ==
    << << [cls |-> "big", pseudo |-> FALSE,
           props |-> {"font-size", "line-height", "padding-top"},
           cssText |-> RuleText(<<".", "b", "i", "g">>,
                         Decl(FontSize, <<"3", "2">> \o Px)
                           \o Decl(LineHeight, <<"3", "2">> \o Px)
                           \o Decl(PaddingTop, <<"1", "6">> \o Px))],
          [cls |-> "zero", pseudo |-> FALSE, props |-> {"font-size"},
           cssText |-> RuleText(<<".", "z", "e", "r", "o">>,
                         Decl(FontSize, <<"0", "p", "x">>))] >>,
       << [cls |-> "", pseudo |-> TRUE, props |-> {"top"},
           cssText |-> RuleText(<<"p", ":", ":", "x">>,
                         Decl(Top, <<"0", "p", "x">>))],
          [cls |-> "pad", pseudo |-> FALSE, props |-> {"position", "padding-top"},
           cssText |-> RuleText(<<".", "p", "a", "d">>,
                         Decl(WPosition, WAbsolute)
                           \o Decl(PaddingTop, <<"1", "6">> \o Px))] >> >>

(***************************************************************************)
(* The document.  A node is a number; node 1 is the container _el.  The    *)
(* kind of a node is "text" (nodeType 3), "plain" (an element no class     *)
(* rule matches), "big", "zero", "pad" (an element of that class), "probe" *)
(* (a test element) or "none" (no such node).                              *)
(***************************************************************************)
Nodes == 1..MaxNodes

AllNodes == 1..(2 * MaxNodes + 2)

Kinds == {"text", "plain", "big", "zero", "pad"}

NodeType(d, n) == IF d.kind[n] = "text" THEN 3 ELSE 1

\* parseInt(s): leading blanks, a sign, decimal digits; NaN without digits.
RECURSIVE SkipSpace(_)
SkipSpace(s) == IF s # <<>> /\ IsSpace(Head(s)) THEN SkipSpace(Tail(s)) ELSE s

ParseInt(s) ==
    LET t   == SkipSpace(s)
        neg == t # <<>> /\ Head(t) = "-"
        u   == IF t # <<>> /\ Head(t) \in {"-", "+"} THEN Tail(t) ELSE t
        ds  == RunOf(u, "d")
    IN  IF ds = <<>> THEN [nan |-> TRUE, neg |-> FALSE, v |-> 0]
        ELSE [nan |-> FALSE, neg |-> neg,
              v |-> IF neg THEN -DigitsToNat(ds) ELSE DigitsToNat(ds)]

\* parseFloat(s) in hundredths (exact for at most two fraction digits,
\* which is all the strings it is applied to have); NaN without digits.
ParseFloat(s) ==
    LET t   == SkipSpace(s)
        neg == t # <<>> /\ Head(t) = "-"
        u   == IF t # <<>> /\ Head(t) \in {"-", "+"} THEN Tail(t) ELSE t
        ip  == RunOf(u, "d")
        fr  == SubSeq(AfterPoint(u) \o <<"0", "0">>, 1, 2)
        m   == DigitsToNat(ip) * 100 + DigitsToNat(fr)
    IN  IF ip = <<>> /\ AfterPoint(u) = <<>> THEN [nan |-> TRUE, v |-> 0]
        ELSE [nan |-> FALSE, v |-> IF neg THEN -m ELSE m]

\* Whether a style value is a number of em.
IsEm(s) == Len(s) > 2 /\ SubSeq(s, Len(s) - 1, Len(s)) = Em /\ ~ParseFloat(s).nan

\* The computed font size of a node in 1/100 px, by the cascade: an inline
\* em value, else the class rule, else inherited.  The probe's inline
\* font-size is 1em, its parent's size.
RECURSIVE FontPx(_, _, _)
FontPx(d, st, n) ==
    IF n = 1
    THEN LengthValue(IF rootFontSize # <<>> THEN rootFontSize ELSE computedRootFont) \div 100
    ELSE LET up == FontPx(d, st, d.parentNode[n])
         IN  IF n \in DOMAIN st /\ IsEm(st[n][K(FontSize)])
             THEN (ParseFloat(st[n][K(FontSize)]).v * up) \div 100
             ELSE IF d.kind[n] = "big" THEN 3200
             ELSE IF d.kind[n] = "zero" THEN 0
             ELSE up

\* window.getComputedStyle(element)[name], live: read after the inline
\* style st may have changed.  Lengths are reported in px; an absolutely
\* positioned box reports its used offset for top.
ComputedValue(d, st, n, name) ==
    IF name = FontSize THEN NumberToString(FontPx(d, st, n), 2) \o Px
    ELSE IF name = LineHeight
         THEN IF d.kind[n] = "big" THEN <<"3", "2">> \o Px ELSE Normal
    ELSE IF name = PaddingTop
         THEN IF d.kind[n] \in {"big", "pad"} THEN <<"1", "6">> \o Px ELSE <<"0">> \o Px
    ELSE IF name = Top
         THEN IF d.kind[n] = "pad" THEN <<"8">> \o Px ELSE Auto
    ELSE IF name \in {Right, Bottom, Left} THEN Auto
    ELSE <<"0">> \o Px

\* testEl.clientHeight (line 196): the probe is one line of line-height 1
\* and font-size 1em (or 1rem), so its height is the font size, in whole px.
ClientHeight(d, st, probe) == (FontPx(d, st, probe) + 50) \div 100

\* _appendHtmlNode: a new div, the last child of parent.
AppendHtmlNode(d, parent, probe) ==
    [kind       |-> [d.kind EXCEPT ![probe] = "probe"],
     parentNode |-> [d.parentNode EXCEPT ![probe] = parent],
     childNodes |-> [d.childNodes EXCEPT ![parent] = Append(@, probe)]]

\* A _removeHtmlNode that removes nothing.
RemoveHtmlNodeNoop(d, ref) == d

\* _removeHtmlNode: nodeReference.parentNode.removeChild(nodeReference).
RemoveHtmlNode(d, ref) ==
    LET parent == d.parentNode[ref]
    IN  [kind       |-> d.kind,
         parentNode |-> [d.parentNode EXCEPT ![ref] = 0],
         childNodes |-> [d.childNodes EXCEPT
                            ![parent] = SelectSeq(@, LAMBDA c : c # ref)]]

\* A node no longer referenced (detached, and its variable out of scope) is
\* no part of the state.
Release(d, ref) ==
    IF d.parentNode[ref] = 0
    THEN [d EXCEPT !.kind = [d.kind EXCEPT ![ref] = "none"]]
    ELSE d

\* _getPxSizeOfTestElement: the answer and the document it leaves.
GetPxSizeOfTestElement(d, st, el, probe) ==
    LET d1 == AppendHtmlNode(d, el, probe)
        answer == ClientHeight(d1, st, probe)
        d2 == RemoveHtmlNode(d1, probe)
    IN  [answer |-> answer, dom |-> Release(d2, probe)]

(***************************************************************************)
(* _getAppliedCSS.                                                         *)
(***************************************************************************)
\* el.matches(rule.selectorText): "match", "nomatch" or "throw".
Matches(kind, rule, throws) ==
    IF rule.pseudo THEN (IF throws THEN "throw" ELSE "nomatch")
    ELSE IF rule.cls = kind THEN "match" ELSE "nomatch"

\* A catch block that throws the exception on.
CatchRethrow(acc) == [acc EXCEPT !.raised = TRUE]

\* The catch block of lines 105-108: the exception ends there.
Catch(acc) == acc

\* One turn of the inner loop, lines 99-108.  acc.raised is an exception
\* on its way out; acc.examined counts the rules el.matches was asked about.
RuleStep(acc, outcome, cssText) ==
    IF acc.raised THEN acc
    ELSE LET seen == [acc EXCEPT !.examined = @ + 1]
         IN  IF outcome = "match" THEN [seen EXCEPT !.css = @ \o cssText]
             ELSE IF outcome = "throw" THEN Catch(seen)
             ELSE seen

RECURSIVE RulesLoop(_, _, _)
RulesLoop(acc, outcomes, texts) ==
    IF outcomes = <<>> THEN acc
    ELSE RulesLoop(RuleStep(acc, Head(outcomes), Head(texts)),
                   Tail(outcomes), Tail(texts))

RECURSIVE SheetsLoop(_, _, _)
SheetsLoop(acc, outcomes, texts) ==
    IF outcomes = <<>> THEN acc
    ELSE SheetsLoop(RulesLoop(acc, Head(outcomes), Head(texts)),
                    Tail(outcomes), Tail(texts))

\* _getAppliedCSS, given per sheet and rule what el.matches does and the
\* rule's cssText: cssArray.join('').
AppliedCSS(outcomes, texts) ==
    SheetsLoop([css |-> <<>>, raised |-> FALSE, examined |-> 0], outcomes, texts)

\* _getAppliedCSS(el) in the document's style sheets.
GetAppliedCSS(kind, throws) ==
    AppliedCSS(
        [i \in 1..Len(StyleSheets) |->
            [r \in 1..Len(StyleSheets[i]) |->
                Matches(kind, StyleSheets[i][r], throws)]],
        [i \in 1..Len(StyleSheets) |->
            [r \in 1..Len(StyleSheets[i]) |-> StyleSheets[i][r].cssText]])

\* String.prototype.indexOf(needle) > -1
Contains(hay, needle) ==
    \E i \in 1..(Len(hay) - Len(needle) + 1) :
        SubSeq(hay, i, i + Len(needle) - 1) = needle

(***************************************************************************)
(* Conversion to em.                                                       *)
(***************************************************************************)
\* A _getStyleValueInEm that reads the value with parseFloat.
GetStyleValueInEmFloat(styleValue, parentEmSize) ==
    LET value == ParseFloat(styleValue)
    IN  IF ~value.nan /\ value.v # 0
        THEN {Fixed2String(h, value.v < 0) \o Em :
                 h \in ToFixed2(value.v, 100 * parentEmSize)}
        ELSE {styleValue}

\* _getStyleValueInEm: the strings the call may return (one, but for a
\* toFixed tie).  A quotient by 0 prints as Infinity.
GetStyleValueInEm(styleValue, parentEmSize) ==
    LET value == ParseInt(styleValue)
    IN  IF ~value.nan /\ value.v # 0
        THEN IF parentEmSize = 0
             THEN {(IF value.neg THEN <<"-">> ELSE <<>>)
                      \o <<"I", "n", "f", "i", "n", "i", "t", "y">> \o Em}
             ELSE {Fixed2String(h, value.neg) \o Em : h \in ToFixed2(value.v, parentEmSize)}
        ELSE {styleValue}

\* The text of the quotient a / b of two parseFloat results: NaN, Infinity,
\* a decimal of at most four places when the quotient is one, and else the
\* quotient written out as numerator/denominator.
QuotientString(a, b) ==
    IF a.nan \/ b.nan \/ (a.v = 0 /\ b.v = 0) THEN <<"N", "a", "N">>
    ELSE IF b.v = 0 THEN <<"I", "n", "f", "i", "n", "i", "t", "y">>
    ELSE LET neg == (a.v < 0) # (b.v < 0)
             n == Abs(a.v)
             m == Abs(b.v)
         IN  (IF neg /\ n # 0 THEN <<"-">> ELSE <<>>)
               \o (IF (n * 10000) % m = 0 THEN NumberToString((n * 10000) \div m, 4)
                   ELSE NatToChars(n) \o <<"/">> \o NatToChars(m))

\* element.style[name] = v: the style object keeps a value that is a
\* number with a unit and ignores any other (NaNem, Infinityem).
SetStyle(st, el, name, v) ==
    IF ParseFloat(v).nan THEN st ELSE [st EXCEPT ![el][K(name)] = v]

\* Lines 221-231: what one watched style does with its em value.
StoreEm(st, el, name, value, emValue) ==
    IF value = emValue THEN st
    ELSE IF name = LineHeight
         THEN SetStyle(st, el, name,
                  QuotientString(ParseFloat(emValue), ParseFloat(st[el][K(FontSize)])) \o Em)
         ELSE SetStyle(st, el, name, emValue)

\* The test of line 216: the watched name occurs in the applied CSS text.
IsSetInCSS(css, name) == Contains(css, name)

\* The loop of lines 212-233 from index i on: the style maps it may leave.
RECURSIVE ConvertFrom(_, _, _, _, _, _)
ConvertFrom(i, d, st, element, parentEmSize, css) ==
    IF i > Len(WatchStyles) THEN {st}
    ELSE IF ~IsSetInCSS(css, WatchStyles[i])
         THEN ConvertFrom(i + 1, d, st, element, parentEmSize, css)
         ELSE LET value == ComputedValue(d, st, element, WatchStyles[i])
              IN  UNION { ConvertFrom(i + 1, d,
                                      StoreEm(st, element, WatchStyles[i], value, emValue),
                                      element, parentEmSize, css) :
                          emValue \in GetStyleValueInEm(value, parentEmSize) }

\* _convertStylesToEm, given the applied CSS text.
ConvertStylesToEm(d, st, element, parentEmSize, css) ==
    ConvertFrom(1, d, st, element, parentEmSize, css)

\* Lines 73-78: with both an inline line-height and font-size, the expando
\* property lineheight is written (any string is kept).
LineheightFix(st, el) ==
    IF st[el][K(LineHeight)] # <<>> /\ st[el][K(FontSize)] # <<>>
    THEN [st EXCEPT ![el][K(LineHeightExpando)] =
              QuotientString(ParseFloat(st[el][K(FontSize)]),
                             ParseFloat(st[el][K(LineHeight)])) \o Em]
    ELSE st

(***************************************************************************)
(* The walk: _recurseElement, one activation per stack frame.              *)
(***************************************************************************)
\* The parentEmSize of the first call, _recurseElement(_el).
Undefined == -1

\* if(parentEmSize)
Truthy(x) == x # Undefined /\ x # 0

\* A loop that recurses whatever the em size.
ShouldRecurseAlways(pxInEm) == TRUE

\* if(pxInEm > 0), line 63
ShouldRecurse(pxInEm) == pxInEm > 0

CallFrame(element, parentEmSize) ==
    [op |-> "call", element |-> element, parentEmSize |-> parentEmSize,
     pxInEm |-> 0, i |-> 0, len |-> 0]

TopFrame == stack[Len(stack)]

Popped == SubSeq(stack, 1, Len(stack) - 1)

\* The innermost activation returns.
Return ==
    /\ stack' = Popped
    /\ pc' = IF Len(stack) = 1 THEN "done" ELSE "walk"

\* _initialize, lines 289-291: the captured size and unit.
CaptureSize(font) == FirstMatch(font, "d")

CaptureUnits(font) == FirstMatch(font, "a")

\* _initialize: capture the root's font, start the walk at _el.
Initialize ==
    /\ pc = "new"
    /\ encapsulatingFontSize' = CaptureSize(computedRootFont)
    /\ encapsulatingFontUnits' = CaptureUnits(computedRootFont)
    /\ stack' = <<CallFrame(1, Undefined)>>
    /\ pc' = "walk"
    /\ UNCHANGED <<fullWidth, minScale, computedRootFont, rootFontSize, clientWidth,
                   resizeListeners, lastCall, lastEvent, lastScale>>
    /\ UNCHANGED <<dom, style, probeCount, visitLog, convertLog, pseudoThrows, fnVars>>

\* _recurseElement is entered (lines 58-61): a node that is no element
\* returns at once; an element is measured and its child count read.
Enter ==
    /\ pc = "walk"
    /\ TopFrame.op = "call"
    /\ visitLog' = Append(visitLog, TopFrame.element)
    /\ IF NodeType(dom, TopFrame.element) # 1
       THEN /\ Return
            /\ UNCHANGED <<dom, probeCount>>
       ELSE LET probe == MaxNodes + 1 + probeCount
                m == GetPxSizeOfTestElement(dom, style, TopFrame.element, probe)
            IN  /\ dom' = m.dom
                /\ probeCount' = probeCount + 1
                /\ stack' = Append(Popped,
                               [TopFrame EXCEPT !.op = "loop", !.pxInEm = m.answer,
                                   !.i = 0,
                                   !.len = Len(m.dom.childNodes[TopFrame.element])])
                /\ pc' = "walk"
    /\ UNCHANGED <<rtVars, style, convertLog, pseudoThrows, fnVars>>

\* One turn of the loop of lines 61-67.
LoopStep ==
    /\ pc = "walk"
    /\ TopFrame.op = "loop"
    /\ TopFrame.i < TopFrame.len
    /\ LET next == Append(Popped, [TopFrame EXCEPT !.i = @ + 1])
       IN  stack' = IF ShouldRecurse(TopFrame.pxInEm)
                    THEN Append(next,
                             CallFrame(dom.childNodes[TopFrame.element][TopFrame.i + 1],
                                       TopFrame.pxInEm))
                    ELSE next
    /\ UNCHANGED <<rtVars, pc, dom, style, probeCount, visitLog, convertLog, pseudoThrows,
                   fnVars>>

\* After the loop (lines 69-79): convert the element unless it is the
\* root, then return.  An exception out of _getAppliedCSS ends the walk.
Finish ==
    /\ pc = "walk"
    /\ TopFrame.op = "loop"
    /\ TopFrame.i = TopFrame.len
    /\ IF Truthy(TopFrame.parentEmSize)
       THEN LET applied == GetAppliedCSS(dom.kind[TopFrame.element], pseudoThrows)
            IN  /\ convertLog' = Append(convertLog,
                                   [element |-> TopFrame.element,
                                    parentEmSize |-> TopFrame.parentEmSize])
                /\ IF applied.raised
                   THEN /\ pc' = "threw"
                        /\ stack' = <<>>
                        /\ UNCHANGED style
                   ELSE /\ \E st \in ConvertStylesToEm(dom, style, TopFrame.element,
                                                       TopFrame.parentEmSize, applied.css) :
                               style' = LineheightFix(st, TopFrame.element)
                        /\ Return
       ELSE /\ Return
            /\ UNCHANGED <<style, convertLog>>
    /\ UNCHANGED <<rtVars, dom, probeCount, visitLog, pseudoThrows, fnVars>>

(***************************************************************************)
(* Runtime scaling.                                                        *)
(***************************************************************************)
\* _getScale: the scales (1/10000) the call may return.
\* parseFloat((100 * scaledValue / baseValue).toFixed(2)) / 100
GetScale(baseValue, scaledValue) ==
    IF 0 >= baseValue THEN {0}
    ELSE ToFixed2(100 * scaledValue, baseValue)

\* _encapsulatingFontSize * scale + _encapsulatingFontUnits
ShrinkValue(size, units, scale) ==
    NumberToString(DigitsToNat(size) * scale, 4) \o units

\* _normalize's value: _encapsulatingFontSize + _encapsulatingFontUnits
NormalizeValue(size, units) == size \o units

\* addEventListener: a listener already registered is not added again.
AddEventListener(ls, f) ==
    IF \E i \in 1..Len(ls) : ls[i] = f THEN ls ELSE Append(ls, f)

\* A removeEventListener given another function than the one registered.
RemoveEventListenerOther(ls, f) == ls

\* removeEventListener
RemoveEventListener(ls, f) == SelectSeq(ls, LAMBDA g : g # f)

\* A _shrink that scales the font size the root has now.
DoShrinkCompounding ==
    \E sc \in GetScale(fullWidth, clientWidth) :
        /\ rootFontSize' =
               ShrinkValue(IF rootFontSize = <<>> THEN encapsulatingFontSize
                           ELSE FirstMatch(rootFontSize, "d"),
                           encapsulatingFontUnits, sc)
        /\ lastScale' = {sc}

\* _shrink, as a relation on the state it touches.
DoShrink ==
    \E sc \in GetScale(fullWidth, clientWidth) :
        /\ rootFontSize' = ShrinkValue(encapsulatingFontSize, encapsulatingFontUnits, sc)
        /\ lastScale' = {sc}

\* The public Shrink.
Shrink ==
    /\ pc = "done"
    /\ DoShrink
    /\ lastEvent' = [op |-> "Shrink", runs |-> 1]
    /\ UNCHANGED <<fullWidth, minScale, computedRootFont, encapsulatingFontSize,
                   encapsulatingFontUnits, clientWidth, resizeListeners, lastCall>>
    /\ UNCHANGED <<walkVars, fnVars>>

\* The public Enable.
Enable ==
    /\ pc = "done"
    /\ resizeListeners' = AddEventListener(resizeListeners, "_shrink")
    /\ DoShrink
    /\ lastCall' = "Enable"
    /\ lastEvent' = [op |-> "Enable", runs |-> 1]
    /\ UNCHANGED <<fullWidth, minScale, computedRootFont, encapsulatingFontSize,
                   encapsulatingFontUnits, clientWidth>>
    /\ UNCHANGED <<walkVars, fnVars>>

\* The public Disable.
Disable ==
    /\ pc = "done"
    /\ resizeListeners' = RemoveEventListener(resizeListeners, "_shrink")
    /\ rootFontSize' = NormalizeValue(encapsulatingFontSize, encapsulatingFontUnits)
    /\ lastCall' = "Disable"
    /\ lastEvent' = [op |-> "Disable", runs |-> 0]
    /\ UNCHANGED <<fullWidth, minScale, computedRootFont, encapsulatingFontSize,
                   encapsulatingFontUnits, clientWidth, lastScale>>
    /\ UNCHANGED <<walkVars, fnVars>>

\* The window is resized: the container gets width w and the event is
\* dispatched to every registered listener in turn.  Each run of _shrink
\* reads the same clientWidth, so n runs leave what one run leaves.
Resize ==
    \E w \in Widths :
        /\ pc = "done"
        /\ clientWidth' = w
        /\ IF Len(resizeListeners) > 0
           THEN \E sc \in GetScale(fullWidth, w) :
                    /\ rootFontSize' = ShrinkValue(encapsulatingFontSize,
                                                   encapsulatingFontUnits, sc)
                    /\ lastScale' = {sc}
           ELSE UNCHANGED <<rootFontSize, lastScale>>
        /\ lastEvent' = [op |-> "Resize", runs |-> Len(resizeListeners)]
        /\ UNCHANGED <<fullWidth, minScale, computedRootFont, encapsulatingFontSize,
                       encapsulatingFontUnits, resizeListeners, lastCall>>
        /\ UNCHANGED <<walkVars, fnVars>>

\* The container's width changes without a window resize (a layout change).
Reflow ==
    \E w \in Widths :
        /\ pc = "done"
        /\ clientWidth' = w
        /\ lastEvent' = [op |-> "Reflow", runs |-> 0]
        /\ UNCHANGED <<fullWidth, minScale, computedRootFont, encapsulatingFontSize,
                       encapsulatingFontUnits, rootFontSize, resizeListeners,
                       lastCall, lastScale>>
        /\ UNCHANGED <<walkVars, fnVars>>

(***************************************************************************)
(* _getAppliedCSS and _getStyleValueInEm on their own.                     *)
(***************************************************************************)
Outcomes == {"match", "nomatch", "throw"}

\* The cssText of rule r of sheet i: "r<i><r>;".
TextOfRule(i, r) == <<"r">> \o NatToChars(i) \o NatToChars(r) \o <<";">>

NoCssResult == [done |-> FALSE, css |-> <<>>, raised |-> FALSE, examined |-> 0]

\* _getAppliedCSS(el) in a document of MaxSheets sheets of MaxRules rules each.
CollectCSS ==
    /\ ~cssResult.done
    /\ LET a == AppliedCSS(cssOutcomes,
                    [i \in 1..MaxSheets |-> [r \in 1..MaxRules |-> TextOfRule(i, r)]])
       IN  cssResult' = [done |-> TRUE, css |-> a.css, raised |-> a.raised,
                         examined |-> a.examined]
    /\ UNCHANGED <<rtVars, walkVars, cssOutcomes, emStyleValue, emParent, emResult>>

\* A style value in its parts: a keyword, or sign, integer digits, fraction
\* digits, unit and what follows (a compound value's further tokens).
Keyword(kw) ==
    [num |-> FALSE, kw |-> kw, neg |-> FALSE, int |-> 0, frac |-> <<>>,
     unit |-> <<>>, rest |-> <<>>]

StyleValues ==
    { Keyword(kw) : kw \in {<<>>, Auto, Normal} }
      \cup [num : {TRUE}, kw : {<<>>}, neg : BOOLEAN, int : 0..MaxInt,
            frac : {<<>>, <<"5">>, <<"0", "4">>}, unit : {Px, <<"%">>},
            rest : {<<>>, <<" ", "4", "p", "x">>}]

\* The string of a style value.
StyleString(p) ==
    IF ~p.num THEN p.kw
    ELSE (IF p.neg THEN <<"-">> ELSE <<>>) \o NatToChars(p.int)
           \o (IF p.frac = <<>> THEN <<>> ELSE <<".">> \o p.frac) \o p.unit \o p.rest

EmSizes == {1, 3, 8, 16, 40}

NoEmResult == [done |-> FALSE, arg |-> <<>>, out |-> <<>>]

\* _getStyleValueInEm(styleValue, parentEmSize)
ConvertValue ==
    /\ ~emResult.done
    /\ \E out \in GetStyleValueInEm(StyleString(emStyleValue), emParent) :
           emResult' = [done |-> TRUE, arg |-> StyleString(emStyleValue), out |-> out]
    /\ UNCHANGED <<rtVars, walkVars, cssOutcomes, cssResult, emStyleValue, emParent>>

(***************************************************************************)
(* Specifications.                                                         *)
(***************************************************************************)
NoStyle == [n \in Nodes |-> [k \in StyleKeys |-> <<>>]]

\* The document of a container whose nodes 2..MaxNodes have the parents par
\* and the kinds kinds; children in document order.
DomOf(par, kinds) ==
    [kind       |-> [n \in AllNodes |->
                        IF n = 1 THEN "plain"
                        ELSE IF n \in DOMAIN kinds THEN kinds[n] ELSE "none"],
     parentNode |-> [n \in AllNodes |-> IF n \in DOMAIN par THEN par[n] ELSE 0],
     childNodes |-> [n \in AllNodes |->
                        SelectSeq([c \in 1..MaxNodes |-> c],
                                  LAMBDA c : c \in DOMAIN par /\ par[c] = n)]]

\* Parents precede children, siblings are numbered in document order, and
\* only an element has children.
WellFormed(par, kinds) ==
    \A n \in DOMAIN par :
        /\ par[n] < n
        /\ par[n] # 1 => kinds[par[n]] # "text"
        /\ \A m \in DOMAIN par : m < n => par[m] <= par[n]

\* The state right after new Shrinkable(el, fullWidth, minScale) for a
\* container without children: the walk visited the root alone.
Init ==
    /\ fullWidth \in FullWidths
    /\ minScale \in MinScales
    /\ computedRootFont \in ComputedFonts
    /\ encapsulatingFontSize = CaptureSize(computedRootFont)
    /\ encapsulatingFontUnits = CaptureUnits(computedRootFont)
    /\ rootFontSize = <<>>
    /\ clientWidth \in Widths
    /\ resizeListeners = <<>>
    /\ lastCall = "none"
    /\ lastEvent = [op |-> "new", runs |-> 0]
    /\ lastScale = NoScale
    /\ pc = "done"
    /\ dom = DomOf(<<>>, <<>>)
    /\ style = NoStyle
    /\ stack = <<>>
    /\ probeCount = 1
    /\ visitLog = <<1>>
    /\ convertLog = <<>>
    /\ pseudoThrows = FALSE
    /\ cssOutcomes = <<>>
    /\ cssResult = NoCssResult
    /\ emStyleValue = Keyword(<<>>)
    /\ emParent = 1
    /\ emResult = NoEmResult

Next == Shrink \/ Enable \/ Disable \/ Resize \/ Reflow

Spec == Init /\ [][Next]_vars

\* The constructor is called on a container of MaxNodes nodes, in a
\* document with the style sheets above; Shrink may follow.
WalkRootFonts == { <<"1", "6", "p", "x">> }

WalkFullWidths == {4}

WalkWidths == {2, 4}

InitWalk ==
    /\ fullWidth \in WalkFullWidths
    /\ minScale = 0
    /\ computedRootFont \in WalkRootFonts
    /\ encapsulatingFontSize = <<>>
    /\ encapsulatingFontUnits = <<>>
    /\ rootFontSize = <<>>
    /\ clientWidth \in WalkWidths
    /\ resizeListeners = <<>>
    /\ lastCall = "none"
    /\ lastEvent = [op |-> "new", runs |-> 0]
    /\ lastScale = NoScale
    /\ pc = "new"
    /\ \E par \in [2..MaxNodes -> 1..(MaxNodes - 1)], kinds \in [2..MaxNodes -> Kinds] :
           /\ WellFormed(par, kinds)
           /\ dom = DomOf(par, kinds)
    /\ style = NoStyle
    /\ stack = <<>>
    /\ probeCount = 0
    /\ visitLog = <<>>
    /\ convertLog = <<>>
    /\ pseudoThrows \in BOOLEAN
    /\ cssOutcomes = <<>>
    /\ cssResult = NoCssResult
    /\ emStyleValue = Keyword(<<>>)
    /\ emParent = 1
    /\ emResult = NoEmResult

NextWalk == Initialize \/ Enter \/ LoopStep \/ Finish \/ Shrink

SpecWalk == InitWalk /\ [][NextWalk]_vars

\* The rest of the program while one function is looked at on its own: a
\* constructed Shrinkable on a childless container.
Idle ==
    /\ fullWidth = 0
    /\ minScale = 0
    /\ computedRootFont = <<"1", "6", "p", "x">>
    /\ encapsulatingFontSize = <<"1", "6">>
    /\ encapsulatingFontUnits = Px
    /\ rootFontSize = <<>>
    /\ clientWidth = 0
    /\ resizeListeners = <<>>
    /\ lastCall = "none"
    /\ lastEvent = [op |-> "new", runs |-> 0]
    /\ lastScale = NoScale
    /\ pc = "done"
    /\ dom = DomOf(<<>>, <<>>)
    /\ style = NoStyle
    /\ stack = <<>>
    /\ probeCount = 1
    /\ visitLog = <<1>>
    /\ convertLog = <<>>
    /\ pseudoThrows = FALSE

\* _getAppliedCSS is called for an element, whatever el.matches does for
\* each rule.
InitCss ==
    /\ Idle
    /\ cssOutcomes \in [1..MaxSheets -> [1..MaxRules -> Outcomes]]
    /\ cssResult = NoCssResult
    /\ emStyleValue = Keyword(<<>>)
    /\ emParent = 1
    /\ emResult = NoEmResult

SpecCss == InitCss /\ [][CollectCSS]_vars

\* _getStyleValueInEm is called on a style value and a positive em size.
InitEm ==
    /\ Idle
    /\ cssOutcomes = <<>>
    /\ cssResult = NoCssResult
    /\ emStyleValue \in StyleValues
    /\ emParent \in EmSizes
    /\ emResult = NoEmResult

SpecEm == InitEm /\ [][ConvertValue]_vars

ResizeFollowsEnable ==
    [][lastEvent'.op = "Resize" =>
          /\ lastEvent'.runs = (IF lastCall = "Enable" THEN 1 ELSE 0)
          /\ lastCall # "Enable" => rootFontSize' = rootFontSize
          /\ lastCall = "Enable" =>
                \E sc \in GetScale(fullWidth, clientWidth') :
                    rootFontSize' = ShrinkValue(encapsulatingFontSize,
                                                encapsulatingFontUnits, sc)]_vars

\* A resize that ran _shrink with the listener registered exactly once.
ResizeFollowsEnableWitness ==
    /\ lastEvent = [op |-> "Resize", runs |-> 1]
    /\ lastCall = "Enable"
    /\ Len(resizeListeners) = 1
    /\ fullWidth = 4
    /\ clientWidth = 2
    /\ rootFontSize = <<"8", "p", "x">>

(***************************************************************************)
(* C4.  After Disable the root font size is the computed font size the     *)
(* root had at construction, same number and same unit.                    *)
(***************************************************************************)
DisableRestoresComputedFont ==
    lastEvent.op = "Disable" =>
        /\ LengthValue(rootFontSize) = LengthValue(computedRootFont)
        /\ LengthUnit(rootFontSize) = LengthUnit(computedRootFont)

(***************************************************************************)
(* C5.  The scale _shrink applies is never below minScale.                 *)
(***************************************************************************)
ScaleNeverBelowMinScale ==
    fullWidth > 0 => \A sc \in lastScale : sc >= minScale

(***************************************************************************)
(* The document before construction, and CSS rendering, for the            *)
(* properties of the walk.                                                 *)
(***************************************************************************)
\* The computed font size (whole px) a node had before construction.
RECURSIVE OrigFont(_)
OrigFont(n) ==
    IF n = 1 THEN LengthValue(computedRootFont) \div 10000
    ELSE IF dom.kind[n] = "big" THEN 32
    ELSE IF dom.kind[n] = "zero" THEN 0
    ELSE OrigFont(dom.parentNode[n])

\* The computed px of a length before construction (0 when it had none).
OrigLength(n, key) ==
    IF key = "font-size" THEN OrigFont(n)
    ELSE IF key = "padding-top" /\ dom.kind[n] \in {"big", "pad"} THEN 16
    ELSE IF key = "top" /\ dom.kind[n] = "pad" THEN 8
    ELSE 0

\* The proper ancestors of a node of the container, the root included.
RECURSIVE Ancestors(_)
Ancestors(n) ==
    IF n = 1 THEN {}
    ELSE {dom.parentNode[n]} \cup Ancestors(dom.parentNode[n])

\* The nodes the walk is to convert: elements other than the root whose
\* ancestors all measure a positive em size.
Convertible ==
    {n \in Nodes \ {1} :
        /\ NodeType(dom, n) = 1
        /\ \A a \in Ancestors(n) : OrigFont(a) > 0}

\* Fractions in lowest terms.
RECURSIVE Gcd(_, _)
Gcd(a, b) == IF b = 0 THEN a ELSE Gcd(b, a % b)

Frac(n, d) ==
    IF n = 0 THEN <<0, 1>> ELSE <<n \div Gcd(Abs(n), d), d \div Gcd(Abs(n), d)>>

Times(x, y) == Frac(x[1] * y[1], x[2] * y[2])

\* The font size (px) a node renders at: an em value is relative to the
\* parent's rendered font size, a px value of a class rule is absolute,
\* and a node without either inherits.
RECURSIVE RenderedFont(_)
RenderedFont(n) ==
    IF n = 1 THEN Frac(LengthValue(rootFontSize), 10000)
    ELSE IF IsEm(style[n]["font-size"])
         THEN Times(Frac(ParseFloat(style[n]["font-size"]).v, 100),
                    RenderedFont(dom.parentNode[n]))
    ELSE IF dom.kind[n] = "big" THEN <<32, 1>>
    ELSE IF dom.kind[n] = "zero" THEN <<0, 1>>
    ELSE RenderedFont(dom.parentNode[n])

\* The px an em length of a node renders at: any other length in em is
\* relative to the node's own rendered font size.
RenderedLength(n, key) ==
    IF key = "font-size" THEN RenderedFont(n)
    ELSE Times(Frac(ParseFloat(style[n][key]).v, 100), RenderedFont(n))

\* The em value written for the length is the exact quotient of its px by
\* the parent's em size: toFixed(2) rounded nothing away.
NotRounded(n, key) ==
    ParseFloat(style[n][key]).v * OrigFont(dom.parentNode[n]) = 100 * OrigLength(n, key)

RECURSIVE ChainNotRounded(_)
ChainNotRounded(n) ==
    IF n = 1 THEN TRUE
    ELSE /\ IsEm(style[n]["font-size"]) => NotRounded(n, "font-size")
         /\ ChainNotRounded(dom.parentNode[n])

(***************************************************************************)
(* C1.  After construction and a Shrink at width w (0 < w <= fullWidth)    *)
(* every converted font-size, padding and offset of every descendant       *)
(* renders at scale(w) times the px it had before construction, exactly    *)
(* so wherever toFixed(2) rounded nothing on the way; at w = fullWidth at  *)
(* its original px.                                                        *)
(***************************************************************************)
ConvertedLengthsScaleUniformly ==
    (pc = "done" /\ lastEvent.op = "Shrink" /\ 0 < clientWidth
        /\ clientWidth <= fullWidth) =>
        \A n \in Nodes \ {1} : \A key \in {"font-size", "padding-top", "top"} :
            (IsEm(style[n][key]) /\ NotRounded(n, key) /\ ChainNotRounded(n)) =>
                \A sc \in lastScale :
                    RenderedLength(n, key) = Frac(sc * OrigLength(n, key), 10000)

(***************************************************************************)
(* C6.  A watched property no matching rule declares is left as it was in  *)
(* element.style (unset), also when a matching rule declares a property    *)
(* whose name contains it.                                                 *)
(***************************************************************************)
\* Some rule that matches an element of the kind declares the property.
DeclaredFor(kind, key) ==
    \E i \in 1..Len(StyleSheets) : \E r \in 1..Len(StyleSheets[i]) :
        /\ Matches(kind, StyleSheets[i][r], FALSE) = "match"
        /\ key \in StyleSheets[i][r].props

OnlyDeclaredStylesRewritten ==
    \A n \in Nodes : \A i \in 1..Len(DefaultWatchStyles) :
        ~DeclaredFor(dom.kind[n], StyleKeyList[i]) => style[n][StyleKeyList[i]] = <<>>

(***************************************************************************)
(* C7.  The walk converts exactly the elements other than the root whose   *)
(* ancestors, up to the root, all measure a positive em size: each once,   *)
(* after all of its descendants that are converted, with its parent's      *)
(* positive em size; never the root, a text node or a node below an        *)
(* element of em size 0.                                                   *)
(***************************************************************************)
WalkConvertsExactly ==
    /\ \A i \in 1..Len(convertLog) :
          LET e == convertLog[i].element
          IN  /\ e \in Convertible
              /\ convertLog[i].parentEmSize = OrigFont(dom.parentNode[e])
              /\ convertLog[i].parentEmSize > 0
              /\ \A j \in 1..(i - 1) : convertLog[j].element # e
              /\ \A m \in Convertible :
                    e \in Ancestors(m) => \E j \in 1..(i - 1) : convertLog[j].element = m
    /\ pc = "done" => {convertLog[i].element : i \in 1..Len(convertLog)} = Convertible

\* A finished walk that converted two elements, one of em size 0, and
\* passed over the element child of that one.
WalkConvertsExactlyWitness ==
    /\ pc = "done"
    /\ \E n \in Nodes : dom.kind[n] = "zero" /\ n \in Convertible
          /\ \E c \in Nodes \ Convertible : dom.parentNode[c] = n /\ NodeType(dom, c) = 1
    /\ Len(convertLog) >= 2

(***************************************************************************)
(* C8.  _getStyleValueInEm returns the string unchanged when its leading   *)
(* token is no non-zero integer (a keyword, 0, a number below 1), and else *)
(* the integer part of the leading number over parentEmSize, rounded to    *)
(* two decimals, with the suffix em; the sign is kept, the fraction and    *)
(* what follows the number are dropped.                                    *)
(***************************************************************************)
StyleValueInEmIsIntegerPartOverEm ==
    emResult.done =>
        IF ~emStyleValue.num \/ emStyleValue.int = 0
        THEN emResult.out = emResult.arg
        ELSE LET v == IF emStyleValue.neg THEN -emStyleValue.int ELSE emStyleValue.int
             IN  \E h \in (-100 * MaxInt)..(100 * MaxInt) :
                    /\ 2 * Abs(h * emParent - 100 * v) <= emParent
                    /\ emResult.out = Fixed2String(h, v < 0) \o Em

\* -1.5px over an em of 8px: -1 / 8 = -0.125, printed -0.13em.
StyleValueInEmWitness ==
    /\ emResult.done
    /\ emResult.arg = <<"-", "1", ".", "5", "p", "x">>
    /\ emParent = 8
    /\ emResult.out = <<"-", "0", ".", "1", "3", "e", "m">>

(***************************************************************************)
(* C9.  When el.matches throws for a rule, _getAppliedCSS skips that rule  *)
(* and goes on: every rule of every sheet is examined, the result holds    *)
(* the text of every matching rule and of no other, and no exception       *)
(* leaves the call.                                                        *)
(***************************************************************************)
MatchFailureIsIsolated ==
    cssResult.done =>
        /\ ~cssResult.raised
        /\ cssResult.examined = MaxSheets * MaxRules
        /\ \A i \in 1..MaxSheets : \A r \in 1..MaxRules :
              Contains(cssResult.css, TextOfRule(i, r)) <=> cssOutcomes[i][r] = "match"

\* el.matches threw at the first rule and a later rule of each sheet matched.
MatchFailureIsIsolatedWitness ==
    /\ cssResult.done
    /\ cssOutcomes[1][1] = "throw"
    /\ cssOutcomes[1][2] = "match"
    /\ cssOutcomes[MaxSheets][MaxRules] = "match"
    /\ Contains(cssResult.css, TextOfRule(MaxSheets, MaxRules))

(***************************************************************************)
(* C10.  No step of the walk changes the children, their order or the      *)
(* parent of any node, or leaves a test element in the document, and no    *)
(* test element is ever visited or converted.                              *)
(***************************************************************************)
ProbesLeaveNoTrace ==
    [][/\ dom' = dom
       /\ \A i \in 1..Len(visitLog') : visitLog'[i] \in Nodes
       /\ \A i \in 1..Len(convertLog') : convertLog'[i].element \in Nodes]_vars

\* A finished walk that measured every node of the container.
ProbesLeaveNoTraceWitness ==
    /\ pc = "done"
    /\ probeCount = MaxNodes
    /\ Len(visitLog) = MaxNodes
    /\ \A n \in AllNodes \ Nodes : dom.kind[n] = "none"

====
